---- MODULE Spec2Model ----
(***************************************************************************)
(* Model of the MCP browser tools' action completion barrier               *)
(* (waitForCompletion in tools/utils.ts) as a state machine.  Every        *)
(* invocation of waitForCompletion on the tab is a call c; the page is the *)
(* event source shared by the calls.  A step is one run-to-completion job  *)
(* of the JavaScript event loop: one event emitted by the page with all    *)
(* the listeners it reaches, one timer callback, one promise reaction, or  *)
(* the continuation of the async function up to its next await.            *)
(*                                                                         *)
(* The second part models the output routing of the tools that can save    *)
(* their result to a file (snapshot, console, network, evaluate): every    *)
(* tool invocation is a job j that decides between inline and file output, *)
(* creates the directory, writes the file and adds its results.            *)
(*                                                                         *)
(* The third part models the console and network tools as functions of the *)
(* per-session logs (type filter, failure and latency filters, summary),   *)
(* the fourth the package rename script (rename, restore, backup), and    *)
(* the fifth the scroll and fill-form tools (one call of each).            *)
(***************************************************************************)
EXTENDS Integers, Sequences, FiniteSets, TLC

\* ------------------------------------------------------------------ bounds
\* Number of distinct network requests the page issues.
MaxReqs == 2

\* Number of milliseconds the clock advances.
MaxTicks == 2

\* Number of console messages in the tab's log.
MaxMessages == 3

\* Number of network requests in the tab's log.
MaxRequests == 2

\* Number of rename runs without a restore run in between.
MaxRenames == 2

\* Number of words of the short messages the classifier is applied to.
MaxWords == 3

\* Number of fields of a browser_fill_form call.
MaxFields == 2

\* The size threshold the tests configure (PW_MCP_SIZE_THRESHOLD), in bytes.
SizeThreshold == 1024

\* ------------------------------------------------------------- value sets
Calls == {"c1", "c2"}
Reqs == 1..MaxReqs
Values == {"v1", "v2"}
Events == {"request", "requestfailed", "framenavigated"}

\* Values a trigger can throw: Error objects with a message, and a thrown
\* value that is not an Error instance.  A message is a sequence of words.
ErrContext == [isError |-> TRUE, message |-> <<"Execution", "context", "was", "destroyed">>]
ErrDetached == [isError |-> TRUE, message |-> <<"frame", "was", "detached">>]
ErrOther == [isError |-> TRUE, message |-> <<"element", "is", "not", "visible">>]
NonError == [isError |-> FALSE, message |-> <<"frame", "was", "detached">>]
Thrown == {ErrContext, ErrDetached, ErrOther, NonError}

NoResult == [kind |-> "none"]
Undefined == [kind |-> "return", value |-> "undefined"]

\* ------------------------------------------------- isNavigationError (pure)
\* Mutant: the message is matched as it is.
toLowerCaseSkipped(w) == w

toLowerCase(w) ==
  CASE w = "Execution" -> "execution"
    [] w = "Frame" -> "frame"
    [] w = "Navigation" -> "navigation"
    [] w = "Was" -> "was"
    [] w = "Detached" -> "detached"
    [] OTHER -> w

LowerMessage(m) == [i \in 1..Len(m) |-> toLowerCase(m[i])]

includes(m, p) ==
  \E i \in 0..(Len(m) - Len(p)) : \A j \in 1..Len(p) : m[i + j] = p[j]

NavigationPhrases ==
  { <<"execution", "context", "was", "destroyed">>,
    <<"most", "likely", "because", "of", "a", "navigation">>,
    <<"frame", "was", "detached">>,
    <<"navigating", "frame", "was", "detached">> }

isNavigationError(error) ==
  IF ~error.isError
    THEN FALSE
    ELSE \E p \in NavigationPhrases : includes(LowerMessage(error.message), p)

\* ------------------------------------------------------------------ state
VARIABLES
  pc,               \* position of each call in waitForCompletion
  requests,         \* the call's Set of in-flight requests
  frameNavigated,   \* the call's navigation flag
  waitBarrier,      \* "pending", or the waitCallback call site that resolved it
  resolvedAgain,    \* waitCallback was invoked on the already resolved barrier
  responseWait,     \* requests whose response().then reaction is still to run
  timeout,          \* the call's deadline timer: unset, pending, fired, cleared
  loadState,        \* the call's waitForLoadState('load') promise
  disposeCalls,     \* how many times the call ran dispose()
  callbackResult,   \* how the trigger completed
  outcome,          \* how waitForCompletion completed
  navFired,         \* the page emitted a top-frame framenavigated during the call
  callbackCalls,    \* how many times the call invoked its trigger
  settleDelays,     \* how many 1000 ms settle delays the call started
  listeners,        \* the page's listener table: <<call, event>> pairs
  reqState,         \* the page's requests: new, inflight, responded, failed
  childNavigated    \* a child frame's framenavigated reached a call's listener

callVars == <<pc, requests, frameNavigated, waitBarrier, resolvedAgain,
              responseWait, timeout, loadState, disposeCalls, callbackResult,
              outcome, navFired, callbackCalls, settleDelays>>
barrierVars == <<callVars, listeners, reqState, childNavigated>>

VARIABLES
  opc,              \* position of each job in its tool handler
  tool,             \* the tool the job runs
  directive,        \* the job's snapshotFile / filename parameter
  size,             \* byte size of the job's content
  destination,      \* where the handler sends the content: inline or a file
  results,          \* the response's results, in the order they were added
  toolOutcome,      \* how the tool call completed
  fsError,          \* the error mkdirIfNeeded or writeFile rejected with
  files,            \* the files written: path and writing job
  now,              \* the clock, in milliseconds
  inlineEnv         \* process.env.PW_MCP_SNAPSHOT_INLINE

outputVars == <<opc, tool, directive, size, destination, results, toolOutcome,
                fsError, files, now, inlineEnv>>
VARIABLES
  consoleLog,       \* the tab's console messages, in arrival order
  consoleCall,      \* the last browser_console_messages call: inputs and response
  requestLog,       \* the tab's network requests, in arrival order
  networkCall       \* the last browser_network_requests call: inputs and response

logVars == <<consoleLog, consoleCall, requestLog, networkCall>>

VARIABLES
  packageJson,      \* the package.json of each package: name and dependencies
  backupFile,       \* .package-names-backup.json, or absent
  beforeRename,     \* the package.json files as they were with no backup file
  renameRuns,       \* rename runs since there was no backup file
  lastRun           \* the last run of the script, and the rename runs before it

renameVars == <<packageJson, backupFile, beforeRename, renameRuns, lastRun>>

VARIABLES
  scrollCall,       \* the last browser_scroll call: inputs and what it did
  fillForm          \* the browser_fill_form call: fields, progress and actions

actionVars == <<scrollCall, fillForm>>

vars == <<barrierVars, outputVars, logVars, renameVars, actionVars>>
besidesBarrier == <<outputVars, logVars, renameVars, actionVars>>
besidesOutput == <<barrierVars, logVars, renameVars, actionVars>>
besidesLog == <<barrierVars, outputVars, renameVars, actionVars>>
besidesRename == <<barrierVars, outputVars, logVars, actionVars>>
besidesAction == <<barrierVars, outputVars, logVars, renameVars>>

\* ---------------------------------------------------------------- helpers
On(L, c, ev) == <<c, ev>> \in L

\* Mutant: the listeners are not subscribed when the trigger is invoked.
SubscribeNothing(L, c) == L

\* Lines 51-53: page.on for the three events.
Subscribe(L, c) == L \cup {<<c, ev>> : ev \in Events}

\* Mutant: dispose leaves the 'framenavigated' listener subscribed.
OffRequestsOnly(L, c) == L \ {<<c, "request">>, <<c, "requestfailed">>}

\* Mutant: dispose removes the listeners of every call (removeAllListeners).
OffEveryCall(L, c) == {}

Off(L, c) == L \ {<<c, ev>> : ev \in Events}

ClearTimeout(t) == IF t = "pending" THEN "cleared" ELSE t

\* waitCallback is the resolve function of the waitBarrier promise: only the
\* first invocation takes effect.
WaitCallback(b, site) == IF b = "pending" THEN site ELSE b

\* An invocation of waitCallback that finds the barrier already resolved.
Again(b, flag) == flag \/ b # "pending"

\* Mutant: responseListener empties the set (requests.clear()).
ResponseClear(S, r) == {}

\* responseListener: requests.delete(request); if (!requests.size) waitCallback()
ResponseDelete(S, r) == S \ {r}
ResponseReleases(S, r) == ResponseDelete(S, r) = {}
ResponseBarrier(S, r, b) ==
  IF ResponseReleases(S, r) THEN WaitCallback(b, "response") ELSE b

\* Mutant: the quiescence test with the navigation flag inverted.
QuiescentInverted(S, nav) == S = {} /\ nav

\* Line 65: the quiescence test after the trigger has completed.
Quiescent(S, nav) == S = {} /\ ~nav

\* Mutant: the call does not await the barrier.
ResolvedNotAwaited(b) == TRUE

\* Lines 24, 67 and 78: the waitBarrier promise is resolved.
Resolved(b) == b # "pending"

\* Mutant: onTimeout disposes but does not call waitCallback().
OnTimeoutBarrierKept(b) == b

\* Line 48: onTimeout's waitCallback().
OnTimeoutBarrier(b) == WaitCallback(b, "timeout")

\* Mutant: a navigation-race error is suppressed without looking at the flag.
SuppressUnconditionally(error, nav) == isNavigationError(error)

\* Lines 73-77: a navigation-race error is suppressed when a navigation was seen.
Suppress(error, nav) == isNavigationError(error) /\ nav

\* Mutant: the error is wrapped in a new Error before it is thrown.
RethrowWrapped(error) ==
  [kind |-> "throw", error |-> [isError |-> TRUE, message |-> error.message]]

\* Line 83: throw error.
Rethrow(error) == [kind |-> "throw", error |-> error]

\* Mutant: the call goes on to its settle delay without awaiting the barrier.
AwaitNotWaiting(p, b) ==
  CASE p = "waitBarrier" -> "settle"
    [] p = "catchBarrier" -> "catchSettle"
    [] OTHER -> p

\* Mutant: a resolved barrier also ends the wait for the trigger.
AwaitAbortsTrigger(p, b) ==
  CASE p \in {"waitBarrier", "callback"} /\ Resolved(b) -> "settle"
    [] p = "catchBarrier" /\ Resolved(b) -> "catchSettle"
    [] OTHER -> p

\* Lines 67 and 78: await waitBarrier.  The continuation of an await on a
\* resolved promise runs before any further event or timer, so a call at the
\* barrier moves on in the step that resolves it.
Await(p, b) ==
  CASE p = "waitBarrier" /\ Resolved(b) -> "settle"
    [] p = "catchBarrier" /\ Resolved(b) -> "catchSettle"
    [] OTHER -> p

\* Lines 68 and 79: await new Promise(f => setTimeout(f, 1000)).  A call starts
\* a settle delay in the step that brings it to one of the two awaits.
SettleDelay ==
  settleDelays' = [c \in Calls |->
      IF pc'[c] \in {"settle", "catchSettle"} /\ pc'[c] # pc[c]
        THEN settleDelays[c] + 1 ELSE settleDelays[c]]

\* Mutant: the trigger is invoked a second time.
InvokeCallbackAgain(n) == n + 2

\* Line 64: callback().
InvokeCallback(n) == n + 1

InProgress(c) == pc[c] \notin {"idle", "unused", "done"}

\* Mutant: the listener does not look at the frame's parent.
IsAnyFrame(top) == TRUE

\* Lines 38-39: if (frame.parentFrame()) return.
IsTopFrame(top) == top

\* Mutant: the call returns undefined on both paths.
ReturnedAlwaysUndefined(p, result) == Undefined

\* Lines 69 and 80: return result after the try block's settle delay, return
\* undefined after the catch block's.
ReturnedValue(p, result) == IF p = "settle" THEN result ELSE Undefined

\* Mutant: the finally block does not dispose.
DisposeSkipped(c) == UNCHANGED <<listeners, timeout, disposeCalls>>

\* Lines 56-61 and 84-86: dispose() as the finally block runs it.
Dispose(c) ==
  /\ listeners' = Off(listeners, c)
  /\ timeout' = [timeout EXCEPT ![c] = ClearTimeout(@)]
  /\ disposeCalls' = [disposeCalls EXCEPT ![c] = @ + 1]

\* ---------------------------------------------------------- output router
Jobs == {"j1", "j2"}
Tools == {"snapshot", "consoleBoolean", "console", "network", "evaluate"}

\* The snapshotFile / filename parameter: absent, a boolean or a string.  A
\* string is a sequence of words; the empty string is the empty sequence.
Absent == [type |-> "undefined", bool |-> FALSE, str |-> <<>>]
False == [type |-> "boolean", bool |-> FALSE, str |-> <<>>]
True == [type |-> "boolean", bool |-> TRUE, str |-> <<>>]
String(w) == [type |-> "string", bool |-> FALSE, str |-> w]

FileNames == {<<"report">>, <<"frame", "was", "detached">>}
Strings == {String(w) : w \in FileNames \cup {<<>>}}
Directives == {Absent, False, True} \cup Strings

\* The input schemas: snapshotFile is z.union([z.string(), z.boolean()]), the
\* filename of console.ts, network.ts and evaluate is z.string().
Accepts(t) ==
  IF t \in {"snapshot", "consoleBoolean"} THEN Directives ELSE {Absent} \cup Strings

Sizes == {0, SizeThreshold - 1, SizeThreshold, SizeThreshold + 1}
InlineEnvs == {"unset", "0", "1"}

Prefix(t) ==
  CASE t = "snapshot" -> "snapshot"
    [] t \in {"consoleBoolean", "console"} -> "console"
    [] t = "network" -> "network"
    [] t = "evaluate" -> "evaluate"

Extension(t) ==
  CASE t = "snapshot" -> "yaml"
    [] t = "evaluate" -> "json"
    [] OTHER -> "txt"

\* A file name: its words and, for a generated name, the timestamp it embeds.
NoFile == [words |-> <<>>, stamp |-> <<>>]
Named(w) == [words |-> w, stamp |-> <<>>]

\* Date.prototype.toISOString has millisecond resolution: the seconds and the
\* milliseconds of the date, with ':' and '.' replaced by '-'.
toISOString(date) == <<date \div 1000, date % 1000>>

\* utils.ts:103-106, with new Date() as the parameter date.
dateAsFileName(extension, prefix, date) ==
  [words |-> <<prefix, extension>>, stamp |-> toISOString(date)]

IsGenerated(f) == f.stamp # <<>>

Inline == [kind |-> "inline", file |-> NoFile]
File(f) == [kind |-> "file", file |-> f]
NoDestination == [kind |-> "none", file |-> NoFile]

\* Mutant: the environment default is consulted before the directive.
shouldSaveSnapshotToFileEnvFirst(snapshotFile, env) ==
  IF env = "1" THEN FALSE ELSE snapshotFile # False

\* utils.ts:115-122, with process.env.PW_MCP_SNAPSHOT_INLINE as env.
shouldSaveSnapshotToFile(snapshotFile, env) ==
  IF snapshotFile = False
    THEN FALSE
    ELSE IF snapshotFile = True \/ snapshotFile.type = "string"
      THEN TRUE
      ELSE env # "1"

\* The snapshot tools: response.setSnapshotFile(filename) when the snapshot
\* is to be saved.
SnapshotDestination(d, env, date) ==
  IF shouldSaveSnapshotToFile(d, env)
    THEN File(IF d.type = "string" THEN Named(d.str)
              ELSE dateAsFileName("yaml", "snapshot", date))
    ELSE Inline

\* Mutant: the console tool saves to a file whatever the directive.
ConsoleBooleanAlwaysFile(d, date) == File(dateAsFileName("txt", "console", date))

\* The console tool with a boolean or string filename.
ConsoleBooleanDestination(d, date) ==
  IF d # False
    THEN File(IF d.type = "string" THEN Named(d.str)
              ELSE dateAsFileName("txt", "console", date))
    ELSE Inline

\* Mutant: the empty string is used as the file name.
OrDefaultKeepsEmpty(str, f) == Named(str)

\* params.filename || dateAsFileName(...): the empty string is falsy.
OrDefault(str, f) == IF str = <<>> THEN f ELSE Named(str)

\* The console and network tools with an optional string filename.
FilenameDestination(d, prefix, date) ==
  IF d # Absent
    THEN File(OrDefault(d.str, dateAsFileName("txt", prefix, date)))
    ELSE Inline

\* determineOutputFile(filename, size, prefix, extension): the name of the
\* file to write, or none for inline output.
determineOutputFile(filename, n, prefix, extension, date) ==
  IF filename # Absent
    THEN OrDefault(filename.str, dateAsFileName(extension, prefix, date))
    ELSE IF n >= SizeThreshold
      THEN dateAsFileName(extension, prefix, date)
      ELSE NoFile

\* The evaluate tool.
EvaluateDestination(d, n, date) ==
  LET outputFile == determineOutputFile(d, n, "evaluate", "json", date) IN
  IF outputFile # NoFile THEN File(outputFile) ELSE Inline

Route(t, d, n, env, date) ==
  CASE t = "snapshot" -> SnapshotDestination(d, env, date)
    [] t = "consoleBoolean" -> ConsoleBooleanDestination(d, date)
    [] t = "console" -> FilenameDestination(d, "console", date)
    [] t = "network" -> FilenameDestination(d, "network", date)
    [] t = "evaluate" -> EvaluateDestination(d, n, date)

\* tab.context.outputFile(name): the name resolved under the output directory.
outputFile(f) == <<"outputDir">> \o f.words

\* The results a handler adds for inline output and, after the write, for
\* file output.
InlineResults(t) ==
  CASE t = "snapshot" -> <<>>
    [] t \in {"consoleBoolean", "network"} -> <<"summary", "inline">>
    [] OTHER -> <<"inline">>

FileResults(t) ==
  CASE t = "snapshot" -> <<>>
    [] t = "consoleBoolean" -> <<"summary", "savedTo", "fileSize">>
    [] t = "console" -> <<"savedTo">>
    [] t = "network" -> <<"summary", "savedTo">>
    [] t = "evaluate" -> <<"savedTo", "fileSize">>

\* The error of a failed file-system operation: its message names the
\* operation and the path.
FsError(op, path) ==
  [isError |-> TRUE,
   message |-> <<"ENOENT", "no", "such", "file", "or", "directory", op>> \o path]

Returned == [kind |-> "return", value |-> "undefined"]

\* Mutant: a failed file-system operation is caught and the handler returns.
FailsSwallowed(t, error, nav) == Returned

\* A file-system error thrown in a handler rejects the tool call; in the
\* evaluate tool it is thrown inside the trigger of waitForCompletion and goes
\* through its catch block, nav being the navigation flag the catch block reads.
Fails(t, error, nav) ==
  IF t = "evaluate" /\ Suppress(error, nav) THEN Returned ELSE Rethrow(error)

OutputInitWith(J, E) ==
  /\ opc = [j \in Jobs |-> IF j \in J THEN "idle" ELSE "unused"]
  /\ tool = [j \in Jobs |-> "none"]
  /\ directive = [j \in Jobs |-> Absent]
  /\ size = [j \in Jobs |-> 0]
  /\ destination = [j \in Jobs |-> NoDestination]
  /\ results = [j \in Jobs |-> <<>>]
  /\ toolOutcome = [j \in Jobs |-> NoResult]
  /\ fsError = [j \in Jobs |-> NoResult]
  /\ files = {}
  /\ now = 0
  /\ inlineEnv \in E

\* ------------------------------------------------------------ console tool
NoCall == [kind |-> "none"]

\* messageTypes: z.array(z.enum(['error', 'warning', 'log', 'info'])); the
\* log also holds messages of other types.
MessageTypes == {"error", "warning", "log", "info"}
LogTypes == MessageTypes \cup {"debug"}

Message(t, n) == [type |-> t, text |-> n]

\* An optional array parameter: undefined, or a list.
NoTypes == [given |-> FALSE, list |-> <<>>]
Types(l) == [given |-> TRUE, list |-> l]
TypeParams ==
  {NoTypes} \cup {Types(l) : l \in {<<>>, <<"error">>, <<"warning">>, <<"log", "info">>}}

\* Mutant: onlyErrors takes precedence over messageTypes.
EffectiveTypesErrorsFirst(messageTypes, onlyErrors) ==
  IF onlyErrors THEN Types(<<"error">>) ELSE messageTypes

\* The type filter in effect, from messageTypes and the legacy onlyErrors.
EffectiveTypes(messageTypes, onlyErrors) ==
  IF messageTypes.given /\ Len(messageTypes.list) > 0
    THEN messageTypes
    ELSE IF onlyErrors THEN Types(<<"error">>) ELSE NoTypes

ArrayIncludes(list, x) == \E i \in DOMAIN list : list[i] = x

\* tab.consoleMessages(types): the messages of the given types, in log order,
\* or the whole log when no types are given.
consoleMessages(log, types) ==
  IF types.given
    THEN SelectSeq(log, LAMBDA m : ArrayIncludes(types.list, m.type))
    ELSE log

\* allMessages.filter(m => m.type === t) and allMessages.find(m => m.type === t);
\* the result of find is a list of at most one message.
FilterType(list, t) == SelectSeq(list, LAMBDA m : m.type = t)
FindType(list, t) ==
  IF FilterType(list, t) = <<>> THEN <<>> ELSE <<Head(FilterType(list, t))>>

\* Mutant: the summary is computed over the filtered messages.
SummaryInputFiltered(messages, allMessages) == messages

\* The list the summary is computed over.
SummaryInput(messages, allMessages) == allMessages

Summary(list) ==
  [total |-> Len(list),
   errors |-> Len(FilterType(list, "error")),
   warnings |-> Len(FilterType(list, "warning")),
   logs |-> Len(FilterType(list, "log")),
   info |-> Len(FilterType(list, "info"))]

\* The results added before the messages or the 'Saved' line: the summary,
\* then the first error and the first warning when there is one.
SummaryResults(firstError, firstWarning) ==
  <<"summary">> \o (IF firstError # <<>> THEN <<"firstError">> ELSE <<>>)
                \o (IF firstWarning # <<>> THEN <<"firstWarning">> ELSE <<>>)

ConsoleResponse(log, messageTypes, onlyErrors) ==
  LET types == EffectiveTypes(messageTypes, onlyErrors)
      messages == consoleMessages(log, types)
      allMessages == consoleMessages(log, NoTypes)
      counted == SummaryInput(messages, allMessages)
      firstError == FindType(counted, "error")
      firstWarning == FindType(counted, "warning")
  IN [kind |-> "console", messageTypes |-> messageTypes, onlyErrors |-> onlyErrors,
      log |-> log, types |-> types, messages |-> messages,
      summary |-> Summary(counted),
      firstError |-> firstError, firstWarning |-> firstWarning,
      results |-> SummaryResults(firstError, firstWarning)]

\* ------------------------------------------------------------ network tool
Statuses == {200, 400}
Timings == {<<0, 0 - 1>>, <<0, 1>>, <<0, 2>>, <<1, 2>>, <<0 - 1, 1>>}

\* A request of the log: whether it has a response and its status, and its
\* timing (requestStart, responseStart; -1 when not available).
RequestKinds ==
  {[hasResponse |-> FALSE, status |-> 0, timing |-> t] : t \in Timings}
    \cup {[hasResponse |-> TRUE, status |-> st, timing |-> t] : st \in Statuses, t \in Timings}

Request(k, n) ==
  [id |-> n, hasResponse |-> k.hasResponse, status |-> k.status,
   requestStart |-> k.timing[1], responseStart |-> k.timing[2]]

\* slowRequestsThreshold: undefined (the empty list) or a number.
Thresholds == {<<>>, <<1>>, <<2>>}

\* Mutant: a status of exactly 400 is not a failure.
IsFailedAbove(r) == r.hasResponse /\ r.status > 400

\* hasResponse, and resp && resp.status() >= 400.
IsFailed(r) == r.hasResponse /\ r.status >= 400

\* Mutant: only responseStart is tested.
HasTimingResponseOnly(r) == r.responseStart >= 0

\* timing.responseStart >= 0 && timing.requestStart >= 0
HasTiming(r) == r.responseStart >= 0 /\ r.requestStart >= 0

Duration(r) == r.responseStart - r.requestStart

RECURSIVE TotalDuration(_)
TotalDuration(list) ==
  IF list = <<>> THEN 0 ELSE Duration(Head(list)) + TotalDuration(Tail(list))

\* Mutant: the average is truncated.
MathFloor(num, den) == num \div den

\* Math.round(num / den) for den > 0: the nearest integer, halves rounded up.
MathRound(num, den) == (2 * num + den) \div (2 * den)

\* The duration test of the slow filter.
IsSlow(r, threshold) == HasTiming(r) /\ Duration(r) >= threshold

\* Mutant: the filters are applied to the log itself.
RequestListFiltered(requestList, filteredRequests) == filteredRequests

\* The log after the call: the handler filters a copy, Array.from(requestList).
RequestListAfter(requestList, filteredRequests) == requestList

\* Mutant: the total is taken after the filters.
CountedRequestsFiltered(requestList, filteredRequests) == filteredRequests

\* Line 48: totalRequests is the length of the copy before any filter.
CountedRequests(requestList, filteredRequests) == requestList

NetworkResponse(requestList, onlyFailed, slowRequestsThreshold) ==
  LET timed == SelectSeq(requestList, HasTiming)
      totalDuration == TotalDuration(timed)
      requestCount == Len(timed)
      failed == SelectSeq(requestList, IsFailed)
      afterFailed == IF onlyFailed THEN failed ELSE requestList
      filteredRequests ==
        IF slowRequestsThreshold # <<>>
          THEN SelectSeq(afterFailed, LAMBDA r : IsSlow(r, slowRequestsThreshold[1]))
          ELSE afterFailed
  IN [kind |-> "network", onlyFailed |-> onlyFailed,
      slowRequestsThreshold |-> slowRequestsThreshold,
      log |-> requestList, filteredRequests |-> filteredRequests,
      summary |-> [totalRequests |-> Len(CountedRequests(requestList, filteredRequests)),
                   failedCount |-> Len(failed),
                   avgDuration |-> IF requestCount > 0
                                     THEN MathRound(totalDuration, requestCount)
                                     ELSE 0]]

LogInit ==
  /\ consoleLog = <<>>
  /\ consoleCall = NoCall
  /\ requestLog = <<>>
  /\ networkCall = NoCall

\* ----------------------------------------------------------- rename script
\* PACKAGES: the directory of each package is also its original name.
PackageDirs == {"playwright-core", "playwright"}

\* A package name or a scope argument is the list of its parts between '/'.
Unscoped(name) == <<name>>
DefaultScope == <<"@mcpu">>
Scopes == {DefaultScope, <<"@x">>, <<"@x", "pw">>}

getNewName(originalName, scope) ==
  IF Len(scope) > 1
    THEN IF originalName = "playwright-core" THEN scope \o <<"-core">> ELSE scope
    ELSE scope \o <<originalName>>

\* pkgJson.dependencies: undefined, or an object from names to versions.
NoDependencies == [present |-> FALSE, entries |-> {}]
Dependencies(E) == [present |-> TRUE, entries |-> E]
Dependency(name, version) == [name |-> name, version |-> version]

HasCoreDependency(deps) ==
  deps.present /\ \E e \in deps.entries : e.name = Unscoped("playwright-core")

\* Lines 73-79: the dependency on playwright-core moves to the new core name.
RenameDependencies(deps, scope) ==
  IF HasCoreDependency(deps)
    THEN LET core == CHOOSE e \in deps.entries : e.name = Unscoped("playwright-core")
             newCoreName == getNewName("playwright-core", scope)
         IN Dependencies({e \in deps.entries : e.name \notin {core.name, newCoreName}}
                           \cup {Dependency(newCoreName, core.version)})
    ELSE deps

\* Mutant: the backup keeps the dependencies object itself, which the rename
\* then changes.
BackupDependenciesAliased(before, after) == after

\* Line 64: the backup keeps a copy of the dependencies, { ...dependencies }.
BackupDependencies(before, after) == before

NoBackup == [exists |-> FALSE]
Backup(b) == [exists |-> TRUE, packages |-> b]

InitialPackageJsons ==
  { [d \in PackageDirs |-> IF d = "playwright" THEN pw ELSE core] :
      pw \in { [name |-> n, dependencies |-> deps] :
                 n \in {Unscoped("playwright"), <<"@old", "playwright">>},
                 deps \in { NoDependencies,
                            Dependencies({Dependency(Unscoped("playwright-core"), "1.0")}),
                            Dependencies({Dependency(Unscoped("playwright-core"), "1.0"),
                                          Dependency(<<"@x", "playwright-core">>, "0.9")}) } },
      core \in { [name |-> n, dependencies |-> deps] :
                 n \in {Unscoped("playwright-core"), <<"@old", "playwright-core">>},
                 deps \in {NoDependencies, Dependencies({})} } }

RenameInitWith(P) ==
  /\ packageJson \in P
  /\ backupFile = NoBackup
  /\ beforeRename = packageJson
  /\ renameRuns = 0
  /\ lastRun = [kind |-> "none", after |-> 0]

RenameIdle ==
  RenameInitWith({[d \in PackageDirs |->
                     [name |-> Unscoped(d), dependencies |-> NoDependencies]]})

\* ------------------------------------------------------------- scroll tool
\* Lines 54-76: the amount scrolled on each axis.  amount is 'page' when it is
\* not given (params.amount || 'page'); pixels is undefined (the empty list)
\* or a number, and params.pixels || 100 replaces undefined and 0 by 100.
\* viewport is <<width, height>>.
ScrollAmount(direction, amount, pixels, viewport) ==
  LET given == IF pixels = <<>> \/ pixels = <<0>> THEN 100 ELSE pixels[1]
      dimension == IF direction \in {"up", "down"} THEN viewport[2] ELSE viewport[1]
      scrollAmount == CASE amount = "pixels" -> given
                        [] amount = "page" -> dimension
                        [] OTHER -> dimension \div 2
  IN [x |-> CASE direction = "left" -> 0 - scrollAmount
              [] direction = "right" -> scrollAmount
              [] OTHER -> 0,
      y |-> CASE direction = "up" -> 0 - scrollAmount
              [] direction = "down" -> scrollAmount
              [] OTHER -> 0]

\* ---------------------------------------------------------- fill-form tool
\* The locator source that tab.refLocator resolves a ref to: getByRole with a
\* role, getByLabel, or another locator such as getByText.
Locators ==
  {[by |-> "getByRole", role |-> r] :
     r \in {"textbox", "spinbutton", "searchbox", "checkbox", "radio",
            "combobox", "listbox", "slider", "button"}}
    \cup {[by |-> "getByLabel", role |-> ""], [by |-> "getByText", role |-> ""]}

inferFieldType(resolved) ==
  CASE resolved.by = "getByRole" /\ resolved.role \in {"textbox", "spinbutton", "searchbox"} ->
         "textbox"
    [] resolved.by = "getByRole" /\ resolved.role = "checkbox" -> "checkbox"
    [] resolved.by = "getByRole" /\ resolved.role = "radio" -> "radio"
    [] resolved.by = "getByRole" /\ resolved.role \in {"combobox", "listbox"} -> "combobox"
    [] resolved.by = "getByRole" /\ resolved.role = "slider" -> "slider"
    [] resolved.by = "getByLabel" -> "combobox"
    [] OTHER -> "undefined"

\* Mutant: a checkbox or a radio is always checked.
FieldActionAlwaysChecks(type, value) ==
  CASE type \in {"textbox", "slider"} -> [method |-> "fill", arg |-> value]
    [] type \in {"checkbox", "radio"} -> [method |-> "setChecked", arg |-> "true"]
    [] type = "combobox" -> [method |-> "selectOption", arg |-> value]
    [] OTHER -> [method |-> "fill", arg |-> value]

\* Lines 66-80: the locator method the handler calls for a field, and its
\* argument (the boolean of setChecked is written "true" or "false").
FieldAction(type, value) ==
  CASE type \in {"textbox", "slider"} -> [method |-> "fill", arg |-> value]
    [] type \in {"checkbox", "radio"} ->
         [method |-> "setChecked", arg |-> IF value = "true" THEN "true" ELSE "false"]
    [] type = "combobox" -> [method |-> "selectOption", arg |-> value]
    [] OTHER -> [method |-> "fill", arg |-> value]

\* ------------------------------------------------------------------- init
InitWith(S) ==
  /\ pc = [c \in Calls |-> IF c \in S THEN "idle" ELSE "unused"]
  /\ requests = [c \in Calls |-> {}]
  /\ frameNavigated = [c \in Calls |-> FALSE]
  /\ waitBarrier = [c \in Calls |-> "pending"]
  /\ resolvedAgain = [c \in Calls |-> FALSE]
  /\ responseWait = [c \in Calls |-> {}]
  /\ timeout = [c \in Calls |-> "unset"]
  /\ loadState = [c \in Calls |-> "none"]
  /\ disposeCalls = [c \in Calls |-> 0]
  /\ callbackResult = [c \in Calls |-> NoResult]
  /\ outcome = [c \in Calls |-> NoResult]
  /\ navFired = [c \in Calls |-> FALSE]
  /\ callbackCalls = [c \in Calls |-> 0]
  /\ settleDelays = [c \in Calls |-> 0]
  /\ listeners = {}
  /\ reqState = [r \in Reqs |-> "new"]
  /\ childNavigated = FALSE

ActionIdle ==
  /\ scrollCall = NoCall
  /\ fillForm = NoCall

OtherIdle == LogInit /\ RenameIdle /\ ActionIdle

Init == InitWith({"c1"}) /\ OutputInitWith({}, {"unset"}) /\ OtherIdle

InitConcurrent == InitWith(Calls) /\ OutputInitWith({}, {"unset"}) /\ OtherIdle

\* ---------------------------------------------------------------- actions
\* Lines 21-64: the synchronous prefix of waitForCompletion, up to the await
\* of callback().
Invoke(c) ==
  /\ pc[c] = "idle"
  /\ pc' = [pc EXCEPT ![c] = "callback"]
  /\ requests' = [requests EXCEPT ![c] = {}]
  /\ frameNavigated' = [frameNavigated EXCEPT ![c] = FALSE]
  /\ waitBarrier' = [waitBarrier EXCEPT ![c] = "pending"]
  /\ listeners' = Subscribe(listeners, c)
  /\ timeout' = [timeout EXCEPT ![c] = "pending"]
  /\ callbackCalls' = [callbackCalls EXCEPT ![c] = InvokeCallback(@)]
  /\ UNCHANGED <<resolvedAgain, responseWait, loadState, disposeCalls,
                 callbackResult, outcome, navFired, settleDelays, reqState>>
  /\ UNCHANGED <<childNavigated, besidesBarrier>>

\* The page emits 'request': requestListener of every subscribed call.
RequestStarted(r) ==
  /\ reqState[r] = "new"
  /\ reqState' = [reqState EXCEPT ![r] = "inflight"]
  /\ requests' = [c \in Calls |->
        IF On(listeners, c, "request") THEN requests[c] \cup {r} ELSE requests[c]]
  /\ responseWait' = [c \in Calls |->
        IF On(listeners, c, "request") THEN responseWait[c] \cup {r} ELSE responseWait[c]]
  /\ UNCHANGED <<pc, frameNavigated, waitBarrier, resolvedAgain, timeout,
                 loadState, disposeCalls, callbackResult, outcome, navFired,
                 listeners>>
  /\ UNCHANGED <<callbackCalls, settleDelays>>
  /\ UNCHANGED <<childNavigated, besidesBarrier>>

\* The response of a request arrives at the page.  No call listens to an event
\* here; each call's request.response() promise settles in a later job.
ResponseReceived(r) ==
  /\ reqState[r] = "inflight"
  /\ reqState' = [reqState EXCEPT ![r] = "responded"]
  /\ UNCHANGED <<callVars, listeners>>
  /\ UNCHANGED <<childNavigated, besidesBarrier>>

\* The page emits 'requestfailed': responseListener of every subscribed call.
RequestFailed(r) ==
  /\ reqState[r] = "inflight"
  /\ reqState' = [reqState EXCEPT ![r] = "failed"]
  /\ requests' = [c \in Calls |->
        IF On(listeners, c, "requestfailed")
          THEN ResponseDelete(requests[c], r) ELSE requests[c]]
  /\ waitBarrier' = [c \in Calls |->
        IF On(listeners, c, "requestfailed")
          THEN ResponseBarrier(requests[c], r, waitBarrier[c]) ELSE waitBarrier[c]]
  /\ resolvedAgain' = [c \in Calls |->
        IF On(listeners, c, "requestfailed") /\ ResponseReleases(requests[c], r)
          THEN Again(waitBarrier[c], resolvedAgain[c]) ELSE resolvedAgain[c]]
  /\ pc' = [c \in Calls |-> Await(pc[c], waitBarrier'[c])]
  /\ UNCHANGED <<frameNavigated, responseWait, timeout, loadState,
                 disposeCalls, callbackResult, outcome, navFired, listeners>>
  /\ SettleDelay
  /\ UNCHANGED callbackCalls
  /\ UNCHANGED <<childNavigated, besidesBarrier>>

\* Line 34: request.response() has resolved (with the response, or with null
\* for a failed request) and its reaction runs responseListener(request).
ResponseReaction(c, r) ==
  /\ r \in responseWait[c]
  /\ reqState[r] \in {"responded", "failed"}
  /\ responseWait' = [responseWait EXCEPT ![c] = @ \ {r}]
  /\ requests' = [requests EXCEPT ![c] = ResponseDelete(@, r)]
  /\ waitBarrier' = [waitBarrier EXCEPT ![c] = ResponseBarrier(requests[c], r, @)]
  /\ resolvedAgain' = [resolvedAgain EXCEPT ![c] =
        IF ResponseReleases(requests[c], r) THEN Again(waitBarrier[c], @) ELSE @]
  /\ pc' = [pc EXCEPT ![c] = Await(@, waitBarrier'[c])]
  /\ UNCHANGED <<frameNavigated, timeout, loadState, disposeCalls,
                 callbackResult, outcome, navFired, listeners, reqState>>
  /\ SettleDelay
  /\ UNCHANGED callbackCalls
  /\ UNCHANGED <<childNavigated, besidesBarrier>>

\* Lines 37-44: the page emits 'framenavigated' for the top frame (top) or for
\* a child frame: frameNavigateListener of every subscribed call.
FrameNavigated(top) ==
  LET hit(c) == IsTopFrame(top) /\ On(listeners, c, "framenavigated") IN
  /\ frameNavigated' = [c \in Calls |-> IF hit(c) THEN TRUE ELSE frameNavigated[c]]
  /\ listeners' = {l \in listeners : \A c \in Calls : hit(c) => l \in Off(listeners, c)}
  /\ disposeCalls' = [c \in Calls |-> IF hit(c) THEN disposeCalls[c] + 1 ELSE disposeCalls[c]]
  /\ timeout' = [c \in Calls |-> IF hit(c) THEN ClearTimeout(timeout[c]) ELSE timeout[c]]
  /\ loadState' = [c \in Calls |-> IF hit(c) THEN "pending" ELSE loadState[c]]
  /\ navFired' = [c \in Calls |-> IF top /\ InProgress(c) THEN TRUE ELSE navFired[c]]
  /\ UNCHANGED <<pc, requests, waitBarrier, resolvedAgain, responseWait,
                 callbackResult, outcome, reqState>>
  /\ UNCHANGED <<callbackCalls, settleDelays>>
  /\ childNavigated' =
       (childNavigated \/ (~top /\ \E c \in Calls : On(listeners, c, "framenavigated")))
  /\ UNCHANGED besidesBarrier

\* Line 43: tab.waitForLoadState('load') resolves and runs waitCallback.
LoadStateReached(c) ==
  /\ loadState[c] = "pending"
  /\ loadState' = [loadState EXCEPT ![c] = "done"]
  /\ waitBarrier' = [waitBarrier EXCEPT ![c] = WaitCallback(@, "load")]
  /\ resolvedAgain' = [resolvedAgain EXCEPT ![c] = Again(waitBarrier[c], @)]
  /\ pc' = [pc EXCEPT ![c] = Await(@, waitBarrier'[c])]
  /\ UNCHANGED <<requests, frameNavigated, responseWait, timeout,
                 disposeCalls, callbackResult, outcome, navFired, listeners,
                 reqState>>
  /\ SettleDelay
  /\ UNCHANGED callbackCalls
  /\ UNCHANGED <<childNavigated, besidesBarrier>>

\* Lines 46-49: the 10000 ms deadline timer fires.
OnTimeout(c) ==
  /\ timeout[c] = "pending"
  /\ listeners' = Off(listeners, c)
  /\ timeout' = [timeout EXCEPT ![c] = ClearTimeout("fired")]
  /\ disposeCalls' = [disposeCalls EXCEPT ![c] = @ + 1]
  /\ waitBarrier' = [waitBarrier EXCEPT ![c] = OnTimeoutBarrier(@)]
  /\ resolvedAgain' = [resolvedAgain EXCEPT ![c] = Again(waitBarrier[c], @)]
  /\ pc' = [pc EXCEPT ![c] = Await(@, waitBarrier'[c])]
  /\ UNCHANGED <<requests, frameNavigated, responseWait, loadState,
                 callbackResult, outcome, navFired, reqState>>
  /\ SettleDelay
  /\ UNCHANGED callbackCalls
  /\ UNCHANGED <<childNavigated, besidesBarrier>>

\* Lines 64-67: callback() resolves with result v.
CallbackReturns(c, v) ==
  LET quiet == Quiescent(requests[c], frameNavigated[c]) IN
  /\ pc[c] = "callback"
  /\ callbackResult' = [callbackResult EXCEPT ![c] = [kind |-> "return", value |-> v]]
  /\ waitBarrier' = [waitBarrier EXCEPT ![c] =
        IF quiet THEN WaitCallback(@, "quiescent") ELSE @]
  /\ resolvedAgain' = [resolvedAgain EXCEPT ![c] =
        IF quiet THEN Again(waitBarrier[c], @) ELSE @]
  /\ pc' = [pc EXCEPT ![c] = Await("waitBarrier", waitBarrier'[c])]
  /\ UNCHANGED <<requests, frameNavigated, responseWait, timeout, loadState,
                 disposeCalls, outcome, navFired, listeners, reqState>>
  /\ SettleDelay
  /\ UNCHANGED callbackCalls
  /\ UNCHANGED <<childNavigated, besidesBarrier>>

\* Lines 68-69 and 79-80, then finally: the 1000 ms settle delay elapses.
SettleElapsed(c) ==
  /\ pc[c] \in {"settle", "catchSettle"}
  /\ outcome' = [outcome EXCEPT ![c] = ReturnedValue(pc[c], callbackResult[c])]
  /\ pc' = [pc EXCEPT ![c] = "done"]
  /\ Dispose(c)
  /\ UNCHANGED <<requests, frameNavigated, waitBarrier, resolvedAgain,
                 responseWait, loadState, callbackResult, navFired, reqState>>
  /\ SettleDelay
  /\ UNCHANGED callbackCalls
  /\ UNCHANGED <<childNavigated, besidesBarrier>>

\* Lines 70-86: callback() rejects with error.
CallbackThrows(c, error) ==
  /\ pc[c] = "callback"
  /\ callbackResult' = [callbackResult EXCEPT ![c] = [kind |-> "throw", error |-> error]]
  /\ IF isNavigationError(error)
       THEN /\ pc' = [pc EXCEPT ![c] =
                  IF Suppress(error, frameNavigated[c])
                    THEN Await("catchBarrier", waitBarrier[c]) ELSE "grace"]
            /\ UNCHANGED <<outcome, listeners, timeout, disposeCalls>>
       ELSE /\ pc' = [pc EXCEPT ![c] = "done"]
            /\ outcome' = [outcome EXCEPT ![c] = Rethrow(error)]
            /\ Dispose(c)
  /\ UNCHANGED <<requests, frameNavigated, waitBarrier, resolvedAgain,
                 responseWait, loadState, navFired, reqState>>
  /\ SettleDelay
  /\ UNCHANGED callbackCalls
  /\ UNCHANGED <<childNavigated, besidesBarrier>>

\* Lines 76-86: the 500 ms grace delay elapses.
GraceElapsed(c) ==
  /\ pc[c] = "grace"
  /\ IF Suppress(callbackResult[c].error, frameNavigated[c])
       THEN /\ pc' = [pc EXCEPT ![c] = Await("catchBarrier", waitBarrier[c])]
            /\ UNCHANGED <<outcome, listeners, timeout, disposeCalls>>
       ELSE /\ pc' = [pc EXCEPT ![c] = "done"]
            /\ outcome' = [outcome EXCEPT ![c] = Rethrow(callbackResult[c].error)]
            /\ Dispose(c)
  /\ UNCHANGED <<requests, frameNavigated, waitBarrier, resolvedAgain,
                 responseWait, loadState, callbackResult, navFired, reqState>>
  /\ SettleDelay
  /\ UNCHANGED callbackCalls
  /\ UNCHANGED <<childNavigated, besidesBarrier>>

NextOver(R, V, T) ==
  \/ \E c \in Calls : Invoke(c)
  \/ \E r \in R : RequestStarted(r)
  \/ \E r \in R : ResponseReceived(r)
  \/ \E r \in R : RequestFailed(r)
  \/ \E c \in Calls, r \in R : ResponseReaction(c, r)
  \/ \E top \in BOOLEAN : FrameNavigated(top)
  \/ \E c \in Calls : LoadStateReached(c)
  \/ \E c \in Calls : OnTimeout(c)
  \/ \E c \in Calls, v \in V : CallbackReturns(c, v)
  \/ \E c \in Calls : SettleElapsed(c)
  \/ \E c \in Calls, error \in T : CallbackThrows(c, error)
  \/ \E c \in Calls : GraceElapsed(c)

Next == NextOver(Reqs, Values, Thrown)

Spec == Init /\ [][Next]_vars

\* Two calls on the same tab, over one request, one result and two errors.
NextConcurrent == NextOver({1}, {"v1"}, {ErrDetached, ErrOther})

SpecConcurrent == InitConcurrent /\ [][NextConcurrent]_vars

\* The values the classifier is applied to: every message of up to MaxWords
\* words over a small vocabulary, the long phrases with and without capitals,
\* a phrase cut short, and each of them as an Error and as a value that is not
\* an Error instance.
Vocabulary == {"frame", "Frame", "was", "Was", "detached", "Detached", "x"}

ShortMessages ==
  UNION {[1..n -> Vocabulary] : n \in 0..MaxWords}

LongMessages ==
  { <<"Execution", "context", "was", "destroyed">>,
    <<"x", "execution", "context", "Was", "destroyed", "x">>,
    <<"execution", "context", "was">>,
    <<"most", "likely", "because", "of", "a", "Navigation">>,
    <<"likely", "because", "of", "a", "navigation">>,
    <<"navigating", "Frame", "was", "detached">>,
    <<"navigating", "frame", "x", "was", "detached">> }

ClassifierInputs ==
  {[isError |-> b, message |-> m] : b \in BOOLEAN, m \in ShortMessages \cup LongMessages}

\* A trigger throws any of the classifier inputs; nothing else happens on the
\* page, so the catch block's first branch is the classifier's answer.
NextClassifier ==
  \/ \E c \in Calls : Invoke(c)
  \/ \E c \in Calls, error \in ClassifierInputs : CallbackThrows(c, error)
  \/ \E c \in Calls : GraceElapsed(c)

SpecClassifier == Init /\ [][NextClassifier]_vars

\* ------------------------------------------------- output router: actions
\* A tool handler runs up to its first await of the file system: it decides the
\* destination and, for inline output, adds its results and returns.  The
\* snapshot tools only hand the file name to the response.
CallTool(j, t, d, n) ==
  LET dest == Route(t, d, n, inlineEnv, now) IN
  /\ opc[j] = "idle"
  /\ d \in Accepts(t)
  /\ tool' = [tool EXCEPT ![j] = t]
  /\ directive' = [directive EXCEPT ![j] = d]
  /\ size' = [size EXCEPT ![j] = n]
  /\ destination' = [destination EXCEPT ![j] = dest]
  /\ IF dest.kind = "file" /\ t # "snapshot"
       THEN /\ opc' = [opc EXCEPT ![j] = "mkdir"]
            /\ UNCHANGED <<results, toolOutcome>>
       ELSE /\ opc' = [opc EXCEPT ![j] = "done"]
            /\ results' = [results EXCEPT ![j] =
                  IF dest.kind = "file" THEN FileResults(t) ELSE InlineResults(t)]
            /\ toolOutcome' = [toolOutcome EXCEPT ![j] = Returned]
  /\ UNCHANGED <<fsError, files, now, inlineEnv, besidesOutput>>

\* await mkdirIfNeeded(fileName) settles.
MkdirIfNeeded(j, ok, nav) ==
  LET error == FsError("mkdir", outputFile(destination[j].file)) IN
  /\ opc[j] = "mkdir"
  /\ IF ok
       THEN /\ opc' = [opc EXCEPT ![j] = "write"]
            /\ UNCHANGED <<toolOutcome, fsError>>
       ELSE /\ opc' = [opc EXCEPT ![j] = "done"]
            /\ fsError' = [fsError EXCEPT ![j] = Rethrow(error)]
            /\ toolOutcome' = [toolOutcome EXCEPT ![j] = Fails(tool[j], error, nav)]
  /\ UNCHANGED <<tool, directive, size, destination, results, files, now,
                 inlineEnv, besidesOutput>>

\* await fs.promises.writeFile(fileName, content, 'utf-8') settles; on success
\* the handler adds its results and returns.
WriteFile(j, ok, nav) ==
  LET path == outputFile(destination[j].file)
      error == FsError("open", path) IN
  /\ opc[j] = "write"
  /\ opc' = [opc EXCEPT ![j] = "done"]
  /\ IF ok
       THEN /\ files' = files \cup {[path |-> path, stamp |-> destination[j].file.stamp, by |-> j]}
            /\ results' = [results EXCEPT ![j] = FileResults(tool[j])]
            /\ toolOutcome' = [toolOutcome EXCEPT ![j] = Returned]
            /\ UNCHANGED fsError
       ELSE /\ fsError' = [fsError EXCEPT ![j] = Rethrow(error)]
            /\ toolOutcome' = [toolOutcome EXCEPT ![j] = Fails(tool[j], error, nav)]
            /\ UNCHANGED <<files, results>>
  /\ UNCHANGED <<tool, directive, size, destination, now, inlineEnv, besidesOutput>>

\* The clock advances by one millisecond.
Tick ==
  /\ now < MaxTicks
  /\ now' = now + 1
  /\ UNCHANGED <<opc, tool, directive, size, destination, results, toolOutcome,
                 fsError, files, inlineEnv, besidesOutput>>

NextOutputOver(T, D, N) ==
  \/ \E j \in Jobs, t \in T, d \in D, n \in N : CallTool(j, t, d, n)
  \/ \E j \in Jobs, ok \in BOOLEAN, nav \in BOOLEAN : MkdirIfNeeded(j, ok, nav)
  \/ \E j \in Jobs, ok \in BOOLEAN, nav \in BOOLEAN : WriteFile(j, ok, nav)
  \/ Tick

InitOutput == InitWith({}) /\ OutputInitWith({"j1"}, InlineEnvs) /\ OtherIdle

NextOutput == NextOutputOver(Tools, Directives, Sizes)

SpecOutput == InitOutput /\ [][NextOutput]_vars

\* Two concurrent tool invocations that generate their file names.
InitOutputConcurrent == InitWith({}) /\ OutputInitWith(Jobs, {"unset"}) /\ OtherIdle

NextOutputConcurrent ==
  NextOutputOver({"consoleBoolean", "console", "network"}, {Absent, True, String(<<>>)}, {0})

SpecOutputConcurrent == InitOutputConcurrent /\ [][NextOutputConcurrent]_vars

\* ------------------------------------------- console and network: actions
\* The page logs a console message of type t.
ConsoleMessage(t) ==
  /\ Len(consoleLog) < MaxMessages
  /\ consoleLog' = Append(consoleLog, Message(t, Len(consoleLog) + 1))
  /\ UNCHANGED <<consoleCall, requestLog, networkCall, besidesLog>>

\* browser_console_messages is called.
CallConsole(messageTypes, onlyErrors) ==
  /\ consoleCall' = ConsoleResponse(consoleLog, messageTypes, onlyErrors)
  /\ UNCHANGED <<consoleLog, requestLog, networkCall, besidesLog>>

\* The page issues a request, which ends as kind k says.
RequestLogged(k) ==
  /\ Len(requestLog) < MaxRequests
  /\ requestLog' = Append(requestLog, Request(k, Len(requestLog) + 1))
  /\ UNCHANGED <<consoleLog, consoleCall, networkCall, besidesLog>>

\* browser_network_requests is called.
CallNetwork(onlyFailed, slowRequestsThreshold) ==
  /\ networkCall' = NetworkResponse(requestLog, onlyFailed, slowRequestsThreshold)
  /\ requestLog' = RequestListAfter(requestLog, networkCall'.filteredRequests)
  /\ UNCHANGED <<consoleLog, consoleCall, besidesLog>>

NextConsoleOver(T, P) ==
  \/ \E t \in T : ConsoleMessage(t)
  \/ \E messageTypes \in P, onlyErrors \in BOOLEAN : CallConsole(messageTypes, onlyErrors)

NextNetworkOver(K, S) ==
  \/ \E k \in K : RequestLogged(k)
  \/ \E onlyFailed \in BOOLEAN, slow \in S : CallNetwork(onlyFailed, slow)

InitLog == InitWith({}) /\ OutputInitWith({}, {"unset"}) /\ OtherIdle

NextConsole == NextConsoleOver(LogTypes, TypeParams)

SpecConsole == InitLog /\ [][NextConsole]_vars

NextNetwork == NextNetworkOver(RequestKinds, Thresholds)

SpecNetwork == InitLog /\ [][NextNetwork]_vars

\* Both tools on the same tab, over two message types and two request kinds
\* (a slow failed request and a fast successful one).
NextLog ==
  \/ NextConsoleOver({"error", "log"}, {Types(<<"error">>)})
  \/ NextNetworkOver({k \in RequestKinds :
                        /\ k.hasResponse
                        /\ \/ k.status = 400 /\ k.timing = <<0, 2>>
                           \/ k.status = 200 /\ k.timing = <<0, 1>>},
                     {<<>>, <<2>>})

SpecLog == InitLog /\ [][NextLog]_vars

\* --------------------------------------------------- rename script: actions
\* node utils/rename-packages.js <scope>: rename(scope).
Rename(scope) ==
  LET renamed == [d \in PackageDirs |->
                    [name |-> getNewName(d, scope),
                     dependencies |-> RenameDependencies(packageJson[d].dependencies, scope)]]
  IN
  /\ renameRuns < MaxRenames
  /\ packageJson' = renamed
  /\ backupFile' = Backup([d \in PackageDirs |->
        [name |-> packageJson[d].name,
         dependencies |-> BackupDependencies(packageJson[d].dependencies,
                                             renamed[d].dependencies)]])
  /\ renameRuns' = renameRuns + 1
  /\ beforeRename' = IF backupFile.exists THEN beforeRename ELSE packageJson
  /\ lastRun' = [kind |-> "rename", after |-> renameRuns]
  /\ UNCHANGED besidesRename

\* node utils/rename-packages.js --restore: restore().  Without a backup file
\* the script exits with status 1 and changes nothing.
Restore ==
  /\ backupFile.exists
  /\ packageJson' = [d \in PackageDirs |->
        LET original == backupFile.packages[d] IN
        [name |-> original.name,
         dependencies |-> IF original.dependencies.present
                            THEN original.dependencies
                            ELSE packageJson[d].dependencies]]
  /\ backupFile' = NoBackup
  /\ renameRuns' = 0
  /\ beforeRename' = packageJson'
  /\ lastRun' = [kind |-> "restore", after |-> renameRuns]
  /\ UNCHANGED besidesRename

NextRename ==
  \/ \E scope \in Scopes : Rename(scope)
  \/ Restore

InitRename ==
  /\ InitWith({}) /\ OutputInitWith({}, {"unset"}) /\ LogInit /\ ActionIdle
  /\ RenameInitWith(InitialPackageJsons)

SpecRename == InitRename /\ [][NextRename]_vars

\* ----------------------------------------- scroll and fill-form: actions
\* browser_scroll is called (once in a behaviour).  ref and direction are "undefined" when they are
\* not given; the empty ref is falsy like undefined.  The record keeps how
\* many times the handler invoked waitForCompletion, the action it wrapped,
\* the results it added and how it ended.
CallScroll(ref, direction, amount, pixels, viewport) ==
  /\ scrollCall = NoCall
  /\ scrollCall' =
       [kind |-> "scroll", ref |-> ref, direction |-> direction,
        amount |-> amount, pixels |-> pixels] @@
       (CASE ref \notin {"undefined", ""} ->
               [barrierCalls |-> 1, action |-> "scrollIntoViewIfNeeded",
                by |-> [x |-> 0, y |-> 0], results |-> 1, outcome |-> "returned"]
          [] ref \in {"undefined", ""} /\ direction # "undefined" ->
               [barrierCalls |-> 1, action |-> "scrollBy",
                by |-> ScrollAmount(direction, amount, pixels, viewport),
                results |-> 1, outcome |-> "returned"]
          [] OTHER ->
               [barrierCalls |-> 0, action |-> "none",
                by |-> [x |-> 0, y |-> 0], results |-> 0, outcome |-> "threw"])
  /\ UNCHANGED <<fillForm, besidesAction>>

\* browser_fill_form is called with a list of fields; with no field the loop
\* body never runs and the handler returns.
CallFillForm(fields) ==
  /\ fillForm = NoCall
  /\ fillForm' = [kind |-> "fillForm", fields |-> fields, next |-> 1, applied |-> <<>>,
                  outcome |-> IF fields = <<>> THEN "returned" ELSE "running"]
  /\ UNCHANGED <<scrollCall, besidesAction>>

\* Lines 62-81: one iteration of the loop.  The locator is resolved and the
\* action awaited; when either fails (~ok) the error leaves the handler, and
\* after the last field the handler returns.
FillField(ok) ==
  /\ fillForm.kind = "fillForm"
  /\ fillForm.outcome = "running"
  /\ LET field == fillForm.fields[fillForm.next] IN
     fillForm' =
       IF ok
         THEN [fillForm EXCEPT
                 !.applied = Append(@, [field |-> fillForm.next,
                                          action |-> FieldAction(inferFieldType(field.locator),
                                                                 field.value)]),
                 !.next = @ + 1,
                 !.outcome = IF fillForm.next = Len(fillForm.fields)
                               THEN "returned" ELSE "running"]
         ELSE [fillForm EXCEPT !.outcome = "threw"]
  /\ UNCHANGED <<scrollCall, besidesAction>>

NextActions ==
  \/ \E ref \in {"undefined", "", "e1"},
        direction \in {"undefined", "up", "down", "left", "right"},
        amount \in {"page", "halfPage", "pixels"},
        pixels \in {<<>>, <<0>>, <<50>>, <<0 - 50>>} :
        CallScroll(ref, direction, amount, pixels, <<800, 600>>)
  \/ \E n \in 0..MaxFields :
        \E fields \in [1..n ->
              {f \in [locator : {k \in Locators : k.role \in {"textbox", "checkbox", ""}},
                      value : {"true", "x"}] :
                 f.value = "true" => f.locator.role = "checkbox"}] :
          CallFillForm(fields)
  \/ \E ok \in BOOLEAN : FillField(ok)

SpecActions == InitLog /\ [][NextActions]_vars

\* ------------------------------------------------------------------ claims
ListenersOf(c) == {l \in listeners : l[1] = c}

ThrewNavigationRace(c) ==
  /\ callbackResult[c].kind = "throw"
  /\ isNavigationError(callbackResult[c].error)

\* C1: without a top-frame navigation and before the deadline fires, the call
\* proceeds from the barrier to its settle delay only when none of the requests
\* it tracks is still in flight.
C1_ReleasedAfterLastRequest ==
  [][\A c \in Calls :
       (pc[c] # "settle" /\ pc'[c] = "settle" /\ ~navFired'[c] /\ timeout'[c] # "fired")
         => \A r \in requests'[c] : reqState'[r] # "inflight"]_vars

\* C2: once the call has observed a top-frame navigation its deadline timer is
\* not pending, and a step that releases its barrier is the completion of
\* waitForLoadState('load').
C2_NavigationReleasedByLoadOnly ==
  [][\A c \in Calls :
       /\ frameNavigated'[c] => timeout'[c] # "pending"
       /\ (frameNavigated[c] /\ waitBarrier[c] = "pending" /\ waitBarrier'[c] # "pending")
            => (loadState[c] = "pending" /\ loadState'[c] = "done")]_vars

\* C3: a call whose trigger threw a navigation-race error, and during which the
\* page emitted a top-frame navigation before the throw or within the grace
\* window, returns undefined.
C3_NavigationRaceSuppressed ==
  \A c \in Calls :
    (pc[c] = "done" /\ ThrewNavigationRace(c) /\ navFired[c]) => outcome[c] = Undefined

\* C4: a call whose trigger threw a navigation-race error, and during which the
\* page emitted no top-frame navigation up to the end of the grace window, throws
\* that same error.
C4_NavigationRacePropagated ==
  \A c \in Calls :
    (pc[c] = "done" /\ ThrewNavigationRace(c) /\ ~navFired[c])
      => outcome[c] = [kind |-> "throw", error |-> callbackResult[c].error]

C4_Witness ==
  \E c \in Calls :
    /\ pc[c] = "done"
    /\ callbackResult[c] = [kind |-> "throw", error |-> ErrContext]
    /\ ~navFired[c]
    /\ outcome[c] = [kind |-> "throw", error |-> ErrContext]

\* C5: once the deadline timer has fired the barrier is released, whatever
\* requests are outstanding; a call whose deadline fired and whose trigger
\* returned a result returns that result, and an error a call throws is the
\* error its trigger threw: the timeout itself is never an error.
C5_DeadlineReleases ==
  \A c \in Calls :
    /\ timeout[c] = "fired" => waitBarrier[c] # "pending"
    /\ (pc[c] = "done" /\ timeout[c] = "fired" /\ callbackResult[c].kind = "return")
         => outcome[c] = callbackResult[c]
    /\ outcome[c].kind = "throw" => outcome[c] = callbackResult[c]

C5_Witness ==
  \E c \in Calls :
    /\ pc[c] = "done"
    /\ waitBarrier[c] = "timeout"
    /\ ~navFired[c]
    /\ \E r \in requests[c] : reqState[r] = "inflight"
    /\ outcome[c] = [kind |-> "return", value |-> "v2"]

\* C6: when the trigger completes with the in-flight set empty and no
\* navigation observed, the barrier is released in that very step, whether or
\* not the deadline timer has fired.
C6_QuiescentReleasesAtOnce ==
  [][\A c \in Calls :
       (pc[c] = "callback" /\ callbackResult'[c].kind = "return"
          /\ requests[c] = {} /\ ~frameNavigated[c])
         => (waitBarrier'[c] # "pending" /\ pc'[c] = "settle")]_vars

C6_Witness ==
  \E c \in Calls :
    /\ pc[c] = "settle"
    /\ waitBarrier[c] = "quiescent"
    /\ timeout[c] = "pending"

\* C7 (as claimed): a call that has returned or thrown ran dispose exactly once.
C7_DisposedExactlyOnce ==
  \A c \in Calls : pc[c] = "done" => disposeCalls[c] = 1

\* C7 (amended): a call that has returned or thrown ran dispose once in its
\* finally block and once more if its deadline fired or it observed a top-frame
\* navigation, never more than twice; its listeners are all unsubscribed and its
\* deadline timer is not pending.
C7_DisposedOnEveryExit ==
  \A c \in Calls :
    /\ disposeCalls[c] <= 2
    /\ pc[c] = "done" =>
         /\ disposeCalls[c] =
              1 + (IF timeout[c] = "fired" \/ frameNavigated[c] THEN 1 ELSE 0)
         /\ ListenersOf(c) = {}
         /\ timeout[c] # "pending"

C7_Witness ==
  \E c \in Calls :
    /\ pc[c] = "done"
    /\ disposeCalls[c] = 2
    /\ timeout[c] = "fired"
    /\ outcome[c].kind = "return"

\* A step taken by call c itself, as opposed to an event emitted by the page.
OwnStep(c) ==
  /\ reqState' = reqState
  /\ \/ pc'[c] # pc[c]
     \/ timeout[c] = "pending" /\ timeout'[c] = "fired"
     \/ loadState[c] = "pending" /\ loadState'[c] = "done"
     \/ responseWait'[c] # responseWait[c] /\ responseWait'[c] \subseteq responseWait[c]

\* C8: with two calls on the same tab, a step of one call (its continuation,
\* its deadline timer, its load-state completion, one of its response
\* reactions) leaves the other call's in-flight set, navigation flag, barrier,
\* listeners and timer unchanged, and a page event adds to a call's set only
\* the request that started and only if that call listens.
C8_CallsAreIndependent ==
  [][\A c \in Calls :
       /\ \A d \in Calls \ {c} :
            OwnStep(c) =>
              /\ requests'[d] = requests[d]
              /\ frameNavigated'[d] = frameNavigated[d]
              /\ waitBarrier'[d] = waitBarrier[d]
              /\ timeout'[d] = timeout[d]
              /\ ListenersOf(d)' = ListenersOf(d)
       /\ \A r \in requests'[c] \ requests[c] :
            /\ reqState[r] = "new"
            /\ reqState'[r] = "inflight"
            /\ On(listeners, c, "request")]_vars

C8_Witness ==
  \E c \in Calls : \E d \in Calls \ {c} :
    /\ timeout[c] = "fired"
    /\ ListenersOf(c) = {}
    /\ waitBarrier[c] = "timeout"
    /\ pc[d] = "callback"
    /\ timeout[d] = "pending"
    /\ ListenersOf(d) # {}
    /\ waitBarrier[d] = "pending"
    /\ requests[d] # {}

\* C9 (as claimed): in a call that has returned or thrown the barrier has been
\* resolved, and waitCallback was never invoked on the resolved barrier.
C9_ResolvedExactlyOnce ==
  \A c \in Calls :
    /\ pc[c] = "done" => waitBarrier[c] # "pending"
    /\ ~resolvedAgain[c]

\* C9 (amended): the resolution of the barrier takes effect at most once (once
\* resolved, it stays resolved by the same call site, later invocations of
\* waitCallback being no-ops), and a call is past its await of the barrier
\* only with the barrier resolved; a call that throws may leave it unresolved.
C9_ResolutionTakesEffectOnce ==
  [][\A c \in Calls :
       /\ waitBarrier[c] # "pending" => waitBarrier'[c] = waitBarrier[c]
       /\ (pc'[c] \in {"settle", "catchSettle"} \/ outcome'[c].kind = "return")
            => waitBarrier'[c] # "pending"]_vars

C9_Witness ==
  \E c \in Calls :
    /\ pc[c] = "done"
    /\ outcome[c].kind = "return"
    /\ waitBarrier[c] = "response"
    /\ resolvedAgain[c]

\* C10: a trigger error that is not a suppressed navigation race (thrown values
\* that are not Error instances included) is thrown unchanged by the call, and
\* when the call has thrown none of its three listeners is subscribed and its
\* deadline timer is not pending.
C10_OtherErrorsPropagated ==
  \A c \in Calls :
    (pc[c] = "done" /\ callbackResult[c].kind = "throw"
       /\ ~(isNavigationError(callbackResult[c].error) /\ frameNavigated[c]))
      => /\ outcome[c] = [kind |-> "throw", error |-> callbackResult[c].error]
         /\ ListenersOf(c) = {}
         /\ timeout[c] # "pending"

C10_Witness ==
  \E c \in Calls :
    /\ pc[c] = "done"
    /\ outcome[c] = [kind |-> "throw", error |-> NonError]
    /\ requests[c] # {}
    /\ ListenersOf(c) = {}
    /\ timeout[c] = "cleared"

\* C11: a call that returns (the trigger's result, or undefined after a
\* suppressed error) has started exactly one settle delay, a settle delay is
\* started only with the barrier released, and a call that throws, or that has
\* not passed the barrier, has started none.
C11_OneSettleDelayAfterRelease ==
  \A c \in Calls :
    /\ pc[c] \in {"settle", "catchSettle"} =>
         (waitBarrier[c] # "pending" /\ settleDelays[c] = 1)
    /\ (pc[c] = "done" /\ outcome[c].kind = "return") => settleDelays[c] = 1
    /\ (pc[c] = "done" /\ outcome[c].kind = "throw") => settleDelays[c] = 0
    /\ pc[c] = "done" => outcome[c].kind \in {"return", "throw"}
    /\ pc[c] \notin {"settle", "catchSettle", "done"} => settleDelays[c] = 0

C11_Witness ==
  \E c \in Calls :
    /\ pc[c] = "done"
    /\ callbackResult[c].kind = "throw"
    /\ outcome[c] = Undefined
    /\ settleDelays[c] = 1
    /\ waitBarrier[c] = "load"

\* C12: in the step that invokes the trigger the three listeners are subscribed
\* and the deadline timer is pending, and from then on, until the deadline
\* fires or a top-frame navigation is observed, no event is missed: a request
\* that starts is tracked, a tracked request that fails is dropped, and a
\* top-frame navigation sets the navigation flag.
C12_SubscribedBeforeTrigger ==
  [][\A c \in Calls :
       /\ callbackCalls'[c] # callbackCalls[c] =>
            /\ ListenersOf(c)' = {<<c, ev>> : ev \in Events}
            /\ timeout'[c] = "pending"
       /\ (pc[c] = "callback" /\ timeout[c] = "pending" /\ ~frameNavigated[c]) =>
            /\ \A r \in Reqs :
                 /\ (reqState[r] = "new" /\ reqState'[r] = "inflight")
                      => r \in requests'[c]
                 /\ (reqState[r] = "inflight" /\ reqState'[r] = "failed")
                      => r \notin requests'[c]
            /\ (navFired'[c] /\ ~navFired[c]) => frameNavigated'[c]]_vars

C12_Witness ==
  \E c \in Calls :
    /\ pc[c] = "callback"
    /\ timeout[c] = "pending"
    /\ ListenersOf(c) = {<<c, ev>> : ev \in Events}
    /\ \E r \in requests[c] : reqState[r] = "inflight"
    /\ \E r \in Reqs \ requests[c] : reqState[r] = "failed"

\* C13: a request enters a call's in-flight set only in the step in which it
\* starts, and leaves it only in the step in which it fails or in a later step
\* once it has a response or has failed; a step in which the trigger completes,
\* the deadline fires, a navigation is observed, the call disposes or the
\* settle delay elapses leaves the set unchanged.
C13_SetChangesOnlyByRequestEvents ==
  [][\A c \in Calls :
       /\ \A r \in requests'[c] \ requests[c] :
            reqState[r] = "new" /\ reqState'[r] = "inflight"
       /\ \A r \in requests[c] \ requests'[c] :
            reqState'[r] \in {"responded", "failed"}
       /\ ( \/ callbackResult'[c] # callbackResult[c]
            \/ timeout'[c] # timeout[c]
            \/ frameNavigated'[c] # frameNavigated[c]
            \/ disposeCalls'[c] # disposeCalls[c]
            \/ outcome'[c] # outcome[c] )
            => requests'[c] = requests[c]]_vars

C13_Witness ==
  \E c \in Calls :
    /\ pc[c] = "done"
    /\ timeout[c] = "fired"
    /\ disposeCalls[c] = 2
    /\ \E r \in requests[c] : reqState[r] = "inflight"
    /\ \E r \in Reqs \ requests[c] : reqState[r] = "responded"

\* C14: a call that has started has invoked its trigger exactly once, whether
\* its deadline fired, its error was suppressed or its error was propagated,
\* and a call that has not started has not invoked it.
C14_TriggerInvokedOnce ==
  \A c \in Calls :
    callbackCalls[c] = IF pc[c] \in {"idle", "unused"} THEN 0 ELSE 1

C14_Witness ==
  \E c \in Calls :
    /\ pc[c] = "done"
    /\ callbackCalls[c] = 1
    /\ timeout[c] = "fired"
    /\ navFired[c]
    /\ outcome[c] = [kind |-> "throw", error |-> ErrDetached]

\* C15: whenever a call is not in progress none of its listeners is subscribed
\* and its deadline timer is not pending, so the page's listener table holds
\* only listeners of calls in progress and is empty, as before the calls, once
\* they have all returned or thrown.
C15_EventSourceRestored ==
  /\ \A c \in Calls :
       ~InProgress(c) => (ListenersOf(c) = {} /\ timeout[c] # "pending")
  /\ listeners \subseteq {<<c, ev>> : c \in {d \in Calls : InProgress(d)}, ev \in Events}
  /\ (\A c \in Calls : pc[c] = "done") => listeners = {}

C15_Witness ==
  \E c \in Calls : \E d \in Calls \ {c} :
    /\ pc[c] = "done"
    /\ outcome[c].kind = "throw"
    /\ pc[d] = "callback"
    /\ listeners = {<<d, ev>> : ev \in Events}
    /\ timeout[d] = "pending"

Started(j) == opc[j] \notin {"idle", "unused"}

FilesBy(j) == {f \in files : f.by = j}

\* C16: in the tools whose routing is in the source (snapshot, console,
\* network), a directive that is a file name or true sends the content to a
\* file, whatever its size and whatever PW_MCP_SNAPSHOT_INLINE: with a name the
\* file has that name and is written under the output directory, with true it
\* has the generated name made of the tool's prefix, a timestamp and the tool's
\* extension.
C16_ExplicitFileDirective ==
  \A j \in Jobs :
    (Started(j) /\ tool[j] # "evaluate") =>
      /\ (directive[j].type = "string" /\ directive[j].str # <<>>) =>
           /\ destination[j] = [kind |-> "file",
                                file |-> [words |-> directive[j].str, stamp |-> <<>>]]
           /\ \A f \in FilesBy(j) : f.path = <<"outputDir">> \o directive[j].str
      /\ directive[j] = True =>
           /\ destination[j].kind = "file"
           /\ destination[j].file.words = <<Prefix(tool[j]), Extension(tool[j])>>
           /\ destination[j].file.stamp \in {<<0, ms>> : ms \in 0..MaxTicks}

C16_Witness ==
  \E j \in Jobs :
    /\ tool[j] = "snapshot"
    /\ directive[j] = True
    /\ size[j] = 0
    /\ inlineEnv = "1"
    /\ now = 1
    /\ destination[j] =
         [kind |-> "file", file |-> [words |-> <<"snapshot", "yaml">>, stamp |-> <<0, 1>>]]

\* C17: a directive of false sends the content inline, whatever its size and
\* whatever PW_MCP_SNAPSHOT_INLINE: the handler returns with its inline results
\* and writes no file.
C17_ExplicitInlineDirective ==
  \A j \in Jobs :
    (Started(j) /\ directive[j] = False) =>
      /\ destination[j] = Inline
      /\ opc[j] = "done"
      /\ toolOutcome[j] = Returned
      /\ results[j] = InlineResults(tool[j])
      /\ FilesBy(j) = {}

C17_Witness ==
  \E j \in Jobs :
    /\ tool[j] = "consoleBoolean"
    /\ directive[j] = False
    /\ size[j] = SizeThreshold + 1
    /\ inlineEnv = "0"
    /\ results[j] = <<"summary", "inline">>

\* C18: with no directive the snapshot, console and evaluate tools send the
\* content to a file with a generated name if and only if its size is at least
\* the threshold, and inline otherwise.
C18_NoDirectiveBySize ==
  \A j \in Jobs :
    (Started(j) /\ directive[j] = Absent
       /\ tool[j] \in {"snapshot", "consoleBoolean", "console", "evaluate"}) =>
      /\ destination[j].kind = (IF size[j] >= SizeThreshold THEN "file" ELSE "inline")
      /\ destination[j].kind = "file" => IsGenerated(destination[j].file)

\* C19: when mkdirIfNeeded or writeFile fails, the tool call throws that error,
\* the response has no result and no file is written.
C19_WriteFailureIsFatal ==
  \A j \in Jobs :
    fsError[j].kind = "throw" =>
      /\ toolOutcome[j] = fsError[j]
      /\ results[j] = <<>>
      /\ FilesBy(j) = {}

\* C20: two tool invocations that generate a file name with the same prefix and
\* extension get different names.
C20_GeneratedNamesUnique ==
  \A j \in Jobs : \A k \in Jobs \ {j} :
    ( /\ destination[j].kind = "file" /\ IsGenerated(destination[j].file)
      /\ destination[k].kind = "file" /\ IsGenerated(destination[k].file)
      /\ destination[j].file.words = destination[k].file.words )
      => destination[j].file # destination[k].file

HasResult(j, kind) == \E i \in DOMAIN results[j] : results[j][i] = kind

PositionsOf(log, t) == {i \in DOMAIN log : log[i].type = t}

EarliestOf(log, t) ==
  IF PositionsOf(log, t) = {}
    THEN <<>>
    ELSE <<log[CHOOSE i \in PositionsOf(log, t) : \A k \in PositionsOf(log, t) : i <= k]>>

\* C22: the console summary is computed over the whole message log whatever
\* the type filter: the total is the log length, each per-type count is the
\* number of messages of that type, the first error and the first warning are
\* the earliest message of that type in log order and each is reported if and
\* only if its count is greater than zero; only the listed or saved messages
\* are restricted by the filter.
C22_SummaryOverWholeLog ==
  consoleCall.kind = "console" =>
    LET log == consoleCall.log
        listed == {i \in DOMAIN log :
                     consoleCall.types.given =>
                       ArrayIncludes(consoleCall.types.list, log[i].type)}
    IN /\ consoleCall.summary.total = Len(log)
       /\ consoleCall.summary.errors = Cardinality(PositionsOf(log, "error"))
       /\ consoleCall.summary.warnings = Cardinality(PositionsOf(log, "warning"))
       /\ consoleCall.summary.logs = Cardinality(PositionsOf(log, "log"))
       /\ consoleCall.summary.info = Cardinality(PositionsOf(log, "info"))
       /\ consoleCall.firstError = EarliestOf(log, "error")
       /\ consoleCall.firstWarning = EarliestOf(log, "warning")
       /\ ArrayIncludes(consoleCall.results, "firstError")
            <=> consoleCall.summary.errors > 0
       /\ ArrayIncludes(consoleCall.results, "firstWarning")
            <=> consoleCall.summary.warnings > 0
       /\ Len(consoleCall.messages) = Cardinality(listed)
       /\ \A i \in DOMAIN consoleCall.messages :
            \E k \in listed :
              /\ consoleCall.messages[i] = log[k]
              /\ Cardinality({l \in listed : l < k}) = i - 1

C22_Witness ==
  /\ consoleCall.kind = "console"
  /\ consoleCall.log = <<Message("warning", 1), Message("log", 2), Message("error", 3)>>
  /\ consoleCall.types = Types(<<"error">>)
  /\ consoleCall.messages = <<Message("error", 3)>>
  /\ consoleCall.summary.total = 3
  /\ consoleCall.summary.warnings = 1
  /\ consoleCall.firstWarning = <<Message("warning", 1)>>
  /\ consoleCall.results = <<"summary", "firstError", "firstWarning">>

\* The positions of the requests with both timings in a log, and the sum of
\* their durations.
TimedPositions(log) ==
  {i \in DOMAIN log : log[i].responseStart >= 0 /\ log[i].requestStart >= 0}

RECURSIVE DurationOver(_, _)
DurationOver(log, S) ==
  IF S = {}
    THEN 0
    ELSE LET i == CHOOSE k \in S : TRUE
         IN (log[i].responseStart - log[i].requestStart) + DurationOver(log, S \ {i})

\* C23: the average duration of the network summary is the sum of
\* responseStart - requestStart over exactly the requests whose responseStart
\* and requestStart are both non-negative, divided by their number and rounded
\* to the nearest integer (a half rounds up); the requests without timing are
\* left out of the average and still counted in the total request count.
C23_AverageDuration ==
  networkCall.kind = "network" =>
    LET log == networkCall.log
        n == Cardinality(TimedPositions(log))
        total == DurationOver(log, TimedPositions(log))
        avg == networkCall.summary.avgDuration
    IN /\ networkCall.summary.totalRequests = Len(log)
       /\ n = 0 => avg = 0
       /\ n > 0 => /\ 2 * n * avg - n <= 2 * total
                   /\ 2 * total < 2 * n * avg + n

C23_Witness ==
  /\ networkCall.kind = "network"
  /\ Len(networkCall.log) = 2
  /\ networkCall.log[1].requestStart = 1
  /\ networkCall.log[1].responseStart = 2
  /\ networkCall.log[2].requestStart = 0 - 1
  /\ networkCall.log[2].responseStart = 1
  /\ networkCall.summary.avgDuration = 1
  /\ networkCall.summary.totalRequests = 2

\* A step leaves a log as it is, or appends one entry to it while the record
\* of the last call stays as it is (the page logged something; no tool ran).
LogKept(log, logAfter, call, callAfter) ==
  \/ logAfter = log
  \/ /\ callAfter = call
     /\ Len(logAfter) = Len(log) + 1
     /\ SubSeq(logAfter, 1, Len(log)) = log

\* What the same call returns when it is made again now.
ConsoleAgain ==
  ConsoleResponse(consoleLog, consoleCall.messageTypes, consoleCall.onlyErrors)

NetworkAgain ==
  NetworkResponse(requestLog, networkCall.onlyFailed, networkCall.slowRequestsThreshold)

ListsExactly(list, log, S) ==
  /\ Len(list) = Cardinality(S)
  /\ \A k \in S : list[Cardinality({l \in S : l < k}) + 1] = log[k]

\* The positions of the requests that have a response with status >= 400.
FailedPositions(log) ==
  {i \in DOMAIN log : log[i].hasResponse /\ log[i].status >= 400}

\* C25 as stated: the failure count is the number of requests of the whole log
\* that have a response with status >= 400, and with onlyFailed the listed
\* requests are exactly those requests, in log order.
C25_OnlyFailedListsAllFailed ==
  networkCall.kind = "network" =>
    /\ networkCall.summary.failedCount = Cardinality(FailedPositions(networkCall.log))
    /\ networkCall.onlyFailed =>
         ListsExactly(networkCall.filteredRequests, networkCall.log,
                      FailedPositions(networkCall.log))

\* C25: the failure count is the number of requests of the whole log that have
\* a response with status >= 400, whatever the filters; with onlyFailed and no
\* slowRequestsThreshold the listed requests are exactly those requests, in log
\* order; with onlyFailed and a slowRequestsThreshold they are those of them
\* that the slow filter keeps, in log order.  Requests with a status below 400
\* or with no response are neither counted nor listed under onlyFailed.
C25_FailedCountAndFilter ==
  networkCall.kind = "network" =>
    LET log == networkCall.log
        slow == networkCall.slowRequestsThreshold
    IN /\ networkCall.summary.failedCount = Cardinality(FailedPositions(log))
       /\ (networkCall.onlyFailed /\ slow = <<>>) =>
            ListsExactly(networkCall.filteredRequests, log, FailedPositions(log))
       /\ (networkCall.onlyFailed /\ slow # <<>>) =>
            ListsExactly(networkCall.filteredRequests, log,
                         {i \in FailedPositions(log) : IsSlow(log[i], slow[1])})

C25_Witness ==
  /\ networkCall.kind = "network"
  /\ networkCall.onlyFailed
  /\ networkCall.slowRequestsThreshold = <<>>
  /\ Len(networkCall.log) = 2
  /\ ~networkCall.log[1].hasResponse
  /\ networkCall.log[2].status = 400
  /\ networkCall.filteredRequests = <<networkCall.log[2]>>
  /\ networkCall.summary.failedCount = 1

\* C26: when slowRequestsThreshold is given, every listed request has both
\* timings and a duration (responseStart - requestStart) strictly greater than
\* the threshold; requests without timing are never listed.
C26_SlowStrictlyAbove ==
  (networkCall.kind = "network" /\ networkCall.slowRequestsThreshold # <<>>) =>
    \A i \in DOMAIN networkCall.filteredRequests :
      LET r == networkCall.filteredRequests[i]
      IN /\ r.responseStart >= 0
         /\ r.requestStart >= 0
         /\ r.responseStart - r.requestStart > networkCall.slowRequestsThreshold[1]

\* C28: a rename run followed by a --restore run is a round trip: each
\* package.json has the name and the dependencies it had before the rename,
\* and the backup file no longer exists.
C28_RenameRestoreRoundTrip ==
  [][ (renameRuns = 1 /\ lastRun'.kind = "restore") =>
        /\ \A d \in PackageDirs :
             /\ packageJson'[d].name = beforeRename[d].name
             /\ packageJson'[d].dependencies = beforeRename[d].dependencies
        /\ ~backupFile'.exists
    ]_vars

C28_Witness ==
  /\ lastRun = [kind |-> "restore", after |-> 1]
  /\ ~backupFile.exists
  /\ packageJson = beforeRename
  /\ packageJson["playwright"].name = <<"@old", "playwright">>
  /\ packageJson["playwright"].dependencies =
       Dependencies({Dependency(Unscoped("playwright-core"), "1.0"),
                     Dependency(<<"@x", "playwright-core">>, "0.9")})

\* Two words that differ at most in the case of their letters.
SameIgnoringCase(a, b) ==
  \/ a = b
  \/ {a, b} \in { {"Execution", "execution"}, {"Frame", "frame"},
                  {"Navigation", "navigation"}, {"Was", "was"},
                  {"Detached", "detached"} }

\* The message contains the phrase, compared case-insensitively.
ContainsIgnoringCase(m, p) ==
  \E i \in 0..(Len(m) - Len(p)) :
    \A j \in 1..Len(p) : SameIgnoringCase(m[i + j], p[j])

NavigationRace(error) ==
  /\ error.isError
  /\ \/ ContainsIgnoringCase(error.message, <<"execution", "context", "was", "destroyed">>)
     \/ ContainsIgnoringCase(error.message, <<"most", "likely", "because", "of", "a", "navigation">>)
     \/ ContainsIgnoringCase(error.message, <<"frame", "was", "detached">>)
     \/ ContainsIgnoringCase(error.message, <<"navigating", "frame", "was", "detached">>)

\* C27: isNavigationError returns true if and only if its argument is an Error
\* whose message contains, compared case-insensitively, one of the fixed
\* navigation-race substrings; it returns false for every value that is not an
\* Error.  When a trigger throws, the catch block takes the navigation branch
\* (here the grace delay, no navigation having been seen) exactly for these
\* errors and rethrows every other value at once, and the answer depends on
\* the thrown value alone.
C27_ClassifierExact ==
  [][ \A c \in Calls :
        (pc[c] = "callback" /\ callbackResult'[c].kind = "throw") =>
          LET error == callbackResult'[c].error
          IN /\ isNavigationError(error) <=> NavigationRace(error)
             /\ pc'[c] = "grace" <=> NavigationRace(error)
             /\ pc'[c] = "done" <=> ~NavigationRace(error)
             /\ ~error.isError => outcome'[c] = [kind |-> "throw", error |-> error]
    ]_vars

C27_Witness ==
  /\ pc["c1"] = "grace"
  /\ callbackResult["c1"] =
       [kind |-> "throw",
        error |-> [isError |-> TRUE, message |-> <<"Frame", "Was", "Detached">>]]

\* The call waits on the barrier after its trigger has terminated, and nothing
\* but the completion of wait-for-load-state can still release the barrier: the
\* deadline timer is cleared and no response of a tracked request is awaited.
WaitsOnLoadAlone(c) ==
  /\ pc[c] \in {"waitBarrier", "catchBarrier"}
  /\ callbackResult[c].kind # "none"
  /\ waitBarrier[c] = "pending"
  /\ timeout[c] # "pending"
  /\ responseWait[c] = {}
  /\ loadState[c] = "pending"

\* C29: every invocation whose trigger terminates eventually returns or throws
\* under fair scheduling of timers, also when a top-frame navigation has fired
\* and wait-for-load-state('load') never completes or fails: so no invocation
\* is ever left waiting on a barrier that only the load state can release.
C29_NeverWaitsOnLoadAlone ==
  \A c \in Calls : ~WaitsOnLoadAlone(c)

\* C30: waitForCompletion never returns or throws before the trigger has
\* completed: a step in which the trigger does not complete (the deadline
\* timer fires, the barrier is released, a navigation's load completes) leaves
\* a call that is running its trigger running it, without an outcome and
\* without a second invocation of the trigger, and a call has an outcome only
\* once its trigger has returned or thrown.
C30_WaitsForTrigger ==
  [][ \A c \in Calls :
        /\ (pc[c] = "callback" /\ callbackResult'[c].kind = "none") =>
             /\ pc'[c] = "callback"
             /\ outcome'[c].kind = "none"
             /\ callbackCalls'[c] = callbackCalls[c]
        /\ (pc'[c] = "done" \/ outcome'[c].kind # "none") =>
             callbackResult'[c].kind # "none"
    ]_vars

C30_Witness ==
  /\ pc["c1"] = "callback"
  /\ callbackResult["c1"].kind = "none"
  /\ outcome["c1"].kind = "none"
  /\ timeout["c1"] = "fired"
  /\ waitBarrier["c1"] = "timeout"

\* C31: when the trigger completes without throwing, a finished call has
\* returned exactly the trigger's result, whichever way the barrier was
\* released (quiescence, a response, the deadline or a navigation's load); the
\* no-value outcome is returned only when the trigger threw a navigation-race
\* error and the call observed a top-frame navigation.
C31_ReturnsTriggerResult ==
  \A c \in Calls :
    pc[c] = "done" =>
      /\ callbackResult[c].kind = "return" =>
           /\ outcome[c] = callbackResult[c]
           /\ waitBarrier[c] \in {"quiescent", "response", "timeout", "load"}
      /\ outcome[c] = Undefined =>
           /\ callbackResult[c].kind = "throw"
           /\ isNavigationError(callbackResult[c].error)
           /\ frameNavigated[c]

C31_Witness ==
  /\ pc["c1"] = "done"
  /\ callbackResult["c1"] = [kind |-> "return", value |-> "v2"]
  /\ outcome["c1"] = [kind |-> "return", value |-> "v2"]
  /\ frameNavigated["c1"]
  /\ waitBarrier["c1"] = "load"

\* C32: a framenavigated event for a frame that has a parent changes nothing
\* in waitForCompletion: the step in which such an event reaches the listener
\* leaves the navigation flag, the listeners, the deadline timer, the load
\* state wait and the call's position as they are; the flag is set, the load
\* state awaited and a navigation-race error suppressed only after a top-frame
\* navigation.
C32_ChildFrameIgnored ==
  [][ /\ (~childNavigated /\ childNavigated') =>
           UNCHANGED <<pc, requests, frameNavigated, waitBarrier, responseWait,
                       timeout, loadState, disposeCalls, outcome, listeners>>
      /\ \A c \in Calls :
           /\ frameNavigated'[c] => navFired'[c]
           /\ loadState'[c] # "none" => navFired'[c]
           /\ outcome'[c] = Undefined => navFired'[c]
    ]_vars

C32_Witness ==
  /\ childNavigated
  /\ pc["c1"] = "done"
  /\ ~frameNavigated["c1"]
  /\ loadState["c1"] = "none"
  /\ timeout["c1"] = "fired"
  /\ callbackResult["c1"] = [kind |-> "throw", error |-> ErrDetached]
  /\ outcome["c1"] = [kind |-> "throw", error |-> ErrDetached]

\* The positions of the messages of a log whose type is one of a list.
PositionsIn(log, list) ==
  {i \in DOMAIN log : \E k \in DOMAIN list : log[i].type = list[k]}

\* C33: the effective type filter of the console tool is messageTypes whenever
\* it is a non-empty list, even if onlyErrors is also true; it is ['error']
\* when messageTypes is absent or empty and onlyErrors is true; otherwise there
\* is no filter and all messages are listed.
C33_EffectiveTypeFilter ==
  consoleCall.kind = "console" =>
    LET log == consoleCall.log
        given == consoleCall.messageTypes.given /\ consoleCall.messageTypes.list # <<>>
    IN /\ given =>
            /\ consoleCall.types = Types(consoleCall.messageTypes.list)
            /\ ListsExactly(consoleCall.messages, log,
                            PositionsIn(log, consoleCall.messageTypes.list))
       /\ (~given /\ consoleCall.onlyErrors) =>
            /\ consoleCall.types = Types(<<"error">>)
            /\ ListsExactly(consoleCall.messages, log, PositionsOf(log, "error"))
       /\ (~given /\ ~consoleCall.onlyErrors) =>
            /\ ~consoleCall.types.given
            /\ consoleCall.messages = log

C33_Witness ==
  /\ consoleCall.kind = "console"
  /\ consoleCall.messageTypes = Types(<<"warning">>)
  /\ consoleCall.onlyErrors
  /\ consoleCall.log = <<Message("error", 1), Message("warning", 2), Message("debug", 3)>>
  /\ consoleCall.messages = <<Message("warning", 2)>>

\* The positions of the log that a call with the given filters lists.
ListedBy(log, onlyFailed, slow) ==
  {i \in DOMAIN log :
     \E k \in DOMAIN NetworkResponse(log, onlyFailed, slow).filteredRequests :
       NetworkResponse(log, onlyFailed, slow).filteredRequests[k] = log[i]}

\* C34: when onlyFailed and slowRequestsThreshold are both given, the listed
\* requests are exactly those that each filter alone lists, in log order; and
\* the summary (total requests, failed count, average duration) is the same
\* for every combination of filters on the same log.
C34_FiltersCompose ==
  networkCall.kind = "network" =>
    LET log == networkCall.log
        slow == networkCall.slowRequestsThreshold
    IN /\ (networkCall.onlyFailed /\ slow # <<>>) =>
            ListsExactly(networkCall.filteredRequests, log,
                         ListedBy(log, TRUE, <<>>) \cap ListedBy(log, FALSE, slow))
       /\ \A onlyFailed \in BOOLEAN, threshold \in Thresholds :
            NetworkResponse(log, onlyFailed, threshold).summary = networkCall.summary
       /\ networkCall.summary.totalRequests = Len(log)

C34_Witness ==
  /\ networkCall.kind = "network"
  /\ networkCall.onlyFailed
  /\ networkCall.slowRequestsThreshold = <<2>>
  /\ Len(networkCall.log) = 2
  /\ networkCall.log[1].status = 400
  /\ networkCall.log[1].responseStart - networkCall.log[1].requestStart = 1
  /\ networkCall.log[2].status = 400
  /\ networkCall.log[2].requestStart = 0
  /\ networkCall.log[2].responseStart = 2
  /\ networkCall.filteredRequests = <<networkCall.log[2]>>
  /\ networkCall.summary = [totalRequests |-> 2, failedCount |-> 2, avgDuration |-> 2]

\* C35: the scroll tool runs at most one barrier-wrapped action per call: with
\* a ref it scrolls the element into view and ignores direction; otherwise
\* with a direction it scrolls the page on exactly one axis, with the sign of
\* the direction; with neither it fails without invoking waitForCompletion and
\* without adding a result.  (A ref is taken as given when it is a non-empty
\* string.)
C35_ScrollOneAction ==
  scrollCall.kind = "scroll" =>
    LET refGiven == scrollCall.ref \notin {"undefined", ""}
        direction == scrollCall.direction
        x == scrollCall.by.x
        y == scrollCall.by.y
    IN /\ scrollCall.barrierCalls <= 1
       /\ refGiven =>
            /\ scrollCall.action = "scrollIntoViewIfNeeded"
            /\ scrollCall.barrierCalls = 1
       /\ (~refGiven /\ direction # "undefined") =>
            /\ scrollCall.action = "scrollBy"
            /\ scrollCall.barrierCalls = 1
            /\ direction = "up" => (x = 0 /\ y < 0)
            /\ direction = "down" => (x = 0 /\ y > 0)
            /\ direction = "left" => (x < 0 /\ y = 0)
            /\ direction = "right" => (x > 0 /\ y = 0)
       /\ (~refGiven /\ direction = "undefined") =>
            /\ scrollCall.outcome = "threw"
            /\ scrollCall.barrierCalls = 0
            /\ scrollCall.results = 0

\* The locator method for a field as the claim lists it: setChecked for a
\* checkbox or a radio, selectOption for a combobox, fill for everything else.
MethodFor(type) ==
  CASE type \in {"checkbox", "radio"} -> "setChecked"
    [] type = "combobox" -> "selectOption"
    [] OTHER -> "fill"

\* The applied actions are those of fields 1..k-1 of the call, in the given
\* order, each with the method of its inferred type.
AppliedInOrder ==
  /\ Len(fillForm.applied) = fillForm.next - 1
  /\ \A i \in DOMAIN fillForm.applied :
       LET field == fillForm.fields[i]
           action == fillForm.applied[i].action
       IN /\ fillForm.applied[i].field = i
          /\ action.method = MethodFor(inferFieldType(field.locator))
          /\ action.method = "setChecked" =>
               (action.arg = "true" <=> field.value = "true")
          /\ action.method # "setChecked" => action.arg = field.value

\* C36: the fill-form tool processes the fields strictly in the given order,
\* one at a time: when field k fails, fields 1..k-1 have been applied and stay
\* applied, fields k+1.. are never touched and the error is propagated; the
\* action depends only on the inferred field type (fill for textbox, slider
\* and unknown types, setChecked(value === 'true') for checkbox and radio,
\* selectOption by label for combobox).
C36_FieldsInOrder ==
  [][ /\ \A l \in Locators, value \in {"true", "false", "x"} :
           LET action == FieldAction(inferFieldType(l), value)
           IN /\ action.method = MethodFor(inferFieldType(l))
              /\ action.arg = IF action.method = "setChecked" /\ value # "true"
                                THEN "false" ELSE value
      /\ fillForm'.kind = "fillForm" =>
           /\ AppliedInOrder'
           /\ fillForm'.outcome = "returned" <=>
                Len(fillForm'.applied) = Len(fillForm'.fields)
           /\ fillForm'.outcome = "threw" => fillForm'.next <= Len(fillForm'.fields)
      /\ fillForm.kind = "fillForm" =>
           /\ fillForm'.fields = fillForm.fields
           /\ Len(fillForm'.applied) <= Len(fillForm.applied) + 1
           /\ SubSeq(fillForm'.applied, 1, Len(fillForm.applied)) = fillForm.applied
           /\ fillForm.outcome # "running" => fillForm' = fillForm
    ]_vars

C36_Witness ==
  /\ fillForm.kind = "fillForm"
  /\ Len(fillForm.fields) = 2
  /\ fillForm.fields[1] =
       [locator |-> [by |-> "getByRole", role |-> "checkbox"], value |-> "x"]
  /\ fillForm.applied =
       <<[field |-> 1, action |-> [method |-> "setChecked", arg |-> "false"]]>>
  /\ fillForm.next = 2
  /\ fillForm.outcome = "threw"

\* C37: after any sequence of one or more rename runs, with the same or with
\* different scopes, followed by a single --restore run, each package.json has
\* its original name and its original dependencies (those it had when there
\* was no backup file).
C37_RestoreAfterAnyRenames ==
  [][ (renameRuns >= 1 /\ lastRun'.kind = "restore") =>
        \A d \in PackageDirs :
          /\ packageJson'[d].name = beforeRename[d].name
          /\ packageJson'[d].dependencies = beforeRename[d].dependencies
    ]_vars

====
